---- MODULE Spec2Model ----
(***************************************************************************)
(* The IoT room automation system: the door node (esp32_door.ino), the     *)
(* sensor node and the light node (esp32_room_sensor.ino, which also holds *)
(* esp32_light.ino), the MQTT-Firebase bridge (rpi_bridge.py, as listed in *)
(* README.md) and the broker that connects them.                           *)
(*                                                                         *)
(* A payload is the sequence of the JSON tokens of the text on the wire;   *)
(* a string token keeps its quotes, so the text "granted" with its quotes  *)
(* is the one token "\"granted\"". A command to the light node, which is   *)
(* parsed character by character, is the sequence of its characters.       *)
(***************************************************************************)
EXTENDS Integers, Sequences, FiniteSets, TLC

\* ------------------------------------------------------------- bounds
\* Access requests the door node publishes in one run.
MaxReq == 2
\* Messages the other broker clients publish on the bridge's topics.
MaxSketch == 2
\* Messages that are no AccessResponse published on TOPIC_RESP.
MaxStray == 1
\* Telemetry records the sensor node publishes in one run.
MaxSamples == 3
\* Commands published on TOPIC_CMD in one run.
MaxCmd == 2
\* Times the light node loses its connection in one run.
MaxDrops == 1

\* ---------------------------------------------------------- constants
LOCKED == 0
UNLOCKED == 90

TOPIC_REQ == "esp/door_lock/request"
TOPIC_RESP == "esp/door_lock/response"
device_id == "door_lock"

\* The topics rpi_bridge.py subscribes to.
BridgeSubs == {"door_lock", "temperature_sensor", "light_control"}

\* allowed_uids of config.json / the Firebase schema.
AllowList == {"4625533D", "A1B2C3D4", "999888777"}

\* The cards presented to the reader, as the bytes readPassiveTargetID
\* returns: one whose hex form is in AllowList, one whose is not (and which
\* has bytes below 0x10, the padded case).
Cards == { <<161, 178, 195, 212>>, <<13, 234, 219, 15>> }

\* ------------------------------------------------------------ strings
HexDigits == <<"0", "1", "2", "3", "4", "5", "6", "7",
               "8", "9", "a", "b", "c", "d", "e", "f">>

\* String(b, HEX): lower-case digits, no leading zero.
StringHEX(b) ==
    IF b < 16 THEN <<HexDigits[b + 1]>>
    ELSE <<HexDigits[(b \div 16) + 1], HexDigits[(b % 16) + 1]>>

\* toUpperCase on one character.
UpperChar(c) ==
    CASE c = "a" -> "A" [] c = "b" -> "B" [] c = "c" -> "C"
      [] c = "d" -> "D" [] c = "e" -> "E" [] c = "f" -> "F"
      [] OTHER -> c

RECURSIVE HexChars(_)
\* The loop of lines 128-131: "0" before a byte below 0x10, then its digits.
HexChars(uid) ==
    IF uid = <<>> THEN <<>>
    ELSE (IF Head(uid) < 16 THEN <<"0">> ELSE <<>>)
         \o StringHEX(Head(uid)) \o HexChars(Tail(uid))

RECURSIVE Join(_)
Join(cs) == IF cs = <<>> THEN "" ELSE Head(cs) \o Join(Tail(cs))

\* uidhex after toUpperCase().
uidhex(uid) == Join([i \in 1..Len(HexChars(uid)) |-> UpperChar(HexChars(uid)[i])])

Quote(s) == "\"" \o s \o "\""

\* The payload built at line 137.
RequestPayload(dev, hex) ==
    <<"{", "\"device_id\"", ":", Quote(dev), ",",
           "\"nfc_uid\"", ":", Quote(hex), ",",
           "\"action\"", ":", "\"unlock_request\"", "}">>

\* String::indexOf of one token: its 0-based place, -1 when absent.
IndexOf(s, tok) ==
    IF \E i \in 1..Len(s) : s[i] = tok
    THEN (CHOOSE i \in 1..Len(s) : s[i] = tok /\ \A j \in 1..(i - 1) : s[j] # tok) - 1
    ELSE -1

\* ---------------------------------------------------------------- JSON
Punct == {"{", "}", ":", ","}

\* Whether json.loads accepts the text: an object of key:value pairs.
WellFormed(p) ==
    /\ Len(p) >= 2
    /\ p[1] = "{"
    /\ p[Len(p)] = "}"
    /\ \/ Len(p) = 2
       \/ /\ Len(p) % 4 = 1
          /\ \A i \in 2..(Len(p) - 1) :
                /\ (i % 4 = 3) => p[i] = ":"
                /\ (i % 4 = 1) => p[i] = ","
                /\ (i % 4 \in {0, 2}) => p[i] \notin Punct

\* json.loads of an accepted text: the object as its key/value pairs, the last
\* value of a repeated key winning.
JsonLoads(p) ==
    { [k |-> p[i], v |-> p[i + 2]] :
        i \in { j \in 2..(Len(p) - 1) :
                  /\ j % 4 = 2
                  /\ \A l \in (j + 1)..(Len(p) - 1) : l % 4 = 2 => p[l] # p[j] } }

HasField(obj, key) == \E e \in obj : e.k = key
Field(obj, key) == (CHOOSE e \in obj : e.k = key).v

\* --------------------------------------------------------------- state
VARIABLES
    pc,            \* door node: where its loop() is
    connected,     \* door node: client.connected()
    servo,         \* door node: the position last written to doorServo
    display,       \* door node: the text last given to displayText
    inbox,         \* messages the broker has queued for the door node
    msg,           \* door node: the payload callback() is handling
    reqLog,        \* history: the uidhex of each request the door published
    handling,      \* history: the request the response in callback() answers
    resolved,      \* history: the requests whose response callback() has taken
    reqChannel,    \* requests on TOPIC_REQ on their way to the responder
    bridgeInbox,   \* messages the broker has queued for rpi_bridge.py
    db,            \* Firebase: /devices/<topic>
    bridgeRunning, \* rpi_bridge.py is in loop_forever()
    bridgeHandled, \* history: the access requests on_message has processed
    bridgeOut,     \* history: the messages rpi_bridge.py has published
    sketchCount,   \* messages the other broker clients have published
    strayCount,    \* messages that are no AccessResponse put on TOPIC_RESP
    bridgeFault,   \* rpi_bridge.py: the call that raised ("none" while it runs)
    powered,       \* the nodes that are switched on in this run
    subs,          \* broker: the topics each node's session is subscribed to
    sConnected,    \* sensor node: client.connected()
    sPc,           \* sensor node: where its loop() is
    h,             \* sensor node: the humidity read in this cycle
    t,             \* sensor node: the temperature read in this cycle
    sensorOut,     \* history: the telemetry the sensor node has published
    lConnected,    \* light node: client.connected()
    lPc,           \* light node: where its loop() and callback() are
    current_mode,  \* light node: current_mode
    lMsg,          \* light node: the message callback() is handling
    mode,          \* light node: the mode callback() has parsed
    pins,          \* light node: the level last written to each output pin
    lInbox,        \* commands the broker has queued for the light node
    lightOut,      \* history: the status messages the light node has published
    cmdCount,      \* commands published on TOPIC_CMD
    lDrops         \* times the light node has lost its connection

bridgeVars == <<bridgeInbox, db, bridgeRunning, bridgeHandled, bridgeOut, sketchCount,
                bridgeFault>>
doorVars == <<pc, connected, servo, display, inbox, msg, reqLog, handling, resolved,
              reqChannel, strayCount>>
sensorVars == <<sConnected, sPc, h, t, sensorOut>>
lightVars == <<lConnected, lPc, current_mode, lMsg, mode, pins, lInbox, lightOut, cmdCount,
               lDrops>>
vars == <<pc, connected, servo, display, inbox, msg, reqLog, handling, resolved,
          reqChannel, bridgeInbox, db, bridgeRunning, bridgeHandled, bridgeOut,
          sketchCount, strayCount, bridgeFault, powered, subs,
          sConnected, sPc, h, t, sensorOut,
          lConnected, lPc, current_mode, lMsg, mode, pins, lInbox, lightOut, cmdCount, lDrops>>

\* The three nodes.
Nodes == {"door", "sensor", "light"}

\* The output pins of the light node.
PIN_LOW == 14
PIN_MED == 12
PIN_HIGH == 13

\* No message is in callback().
NoMsg == [topic |-> "", payload |-> <<>>, cmd |-> 0]

\* A reading the DHT library could not take: isnan() holds of it.
NaN == [nan |-> TRUE, tenths |-> 0]

\* /devices of the Firebase RTDB, as the README gives it.
Schema ==
    [tp \in BridgeSubs |->
        CASE tp = "door_lock" ->
               { [k |-> "\"device_id\"", v |-> "\"DL001\""],
                 [k |-> "\"status\"", v |-> "\"locked\""],
                 [k |-> "\"last_user\"", v |-> "\"A1B2C3D4\""] }
          [] tp = "temperature_sensor" ->
               { [k |-> "\"device_id\"", v |-> "\"TMP001\""],
                 [k |-> "\"temperature\"", v |-> "26.5"],
                 [k |-> "\"humidity\"", v |-> "59.3"],
                 [k |-> "\"last_user\"", v |-> "\"A1B2C3D4\""] }
          [] OTHER ->
               { [k |-> "\"device_id\"", v |-> "\"LC001\""],
                 [k |-> "\"status\"", v |-> "\"medium\""],
                 [k |-> "\"last_user\"", v |-> "\"A1B2C3D4\""] }]

\* The state when setup() of each node has returned and rpi_bridge.py has
\* subscribed: servo locked, "Scan Card" shown, light off with its three
\* pins low, no MQTT connection yet.
InitState ==
    /\ pc = "top"
    /\ connected = FALSE
    /\ servo = LOCKED
    /\ display = "Scan Card"
    /\ inbox = <<>>
    /\ msg = <<>>
    /\ reqLog = <<>>
    /\ handling = 0
    /\ resolved = {}
    /\ reqChannel = <<>>
    /\ bridgeInbox = <<>>
    /\ db = Schema
    /\ bridgeRunning = TRUE
    /\ bridgeHandled = <<>>
    /\ bridgeOut = <<>>
    /\ sketchCount = 0
    /\ strayCount = 0
    /\ bridgeFault = "none"
    /\ subs = [n \in Nodes |-> {}]
    /\ sConnected = FALSE
    /\ sPc = "top"
    /\ h = NaN
    /\ t = NaN
    /\ sensorOut = <<>>
    /\ lConnected = FALSE
    /\ lPc = "top"
    /\ current_mode = "off"
    /\ lMsg = NoMsg
    /\ mode = ""
    /\ pins = [p \in {PIN_LOW, PIN_MED, PIN_HIGH} |-> FALSE]
    /\ lInbox = <<>>
    /\ lightOut = <<>>
    /\ cmdCount = 0
    /\ lDrops = 0

\* All three nodes are switched on.
Init == powered = Nodes /\ InitState

\* One node alone is switched on.
NodeInit == powered \in { {n} : n \in Nodes } /\ InitState

\* ----------------------------------------------------------- door node
\* The test of line 55: the text "granted", quotes included, occurs in msg.
Granted(m) == IndexOf(m, "\"granted\"") >= 0

\* loop(), line 118: reconnect() when the client is not connected. A failed
\* connect waits 2 s and tries again; a successful one subscribes TOPIC_RESP.
loop_reconnect ==
    /\ pc = "top"
    /\ IF connected
       THEN /\ pc' = "poll"
            /\ UNCHANGED <<connected, inbox, subs>>
       ELSE \/ /\ connected' = TRUE
               /\ inbox' = <<>>
               /\ subs' = [subs EXCEPT !["door"] = {TOPIC_RESP}]
               /\ pc' = "poll"
            \/ UNCHANGED <<pc, connected, inbox, subs>>
    /\ UNCHANGED <<servo, display, msg, reqLog, handling, resolved,
                   reqChannel, bridgeVars, strayCount, powered,
                   sensorVars, lightVars>>

\* loop(), line 119: client.loop() hands one queued message to callback(),
\* which runs to its delay(): lines 48-59 (granted) or 48-64 (denied).
loop_client ==
    /\ pc = "poll"
    /\ IF connected /\ inbox # <<>>
       THEN LET m == Head(inbox) IN
            /\ inbox' = Tail(inbox)
            /\ msg' = m.payload
            /\ IF m.topic = TOPIC_RESP
               THEN /\ handling' = m.req
                    /\ resolved' = resolved \cup {m.req}
                    /\ IF Granted(m.payload)
                       THEN /\ display' = "Access Granted"
                            /\ servo' = UNLOCKED
                            /\ pc' = "cb_dwell"
                       ELSE /\ display' = "Access Denied"
                            /\ servo' = servo
                            /\ pc' = "cb_denied"
               ELSE /\ pc' = "nfc"
                    /\ UNCHANGED <<handling, resolved, display, servo>>
       ELSE /\ pc' = "nfc"
            /\ UNCHANGED <<inbox, msg, handling, resolved, display, servo>>
    /\ UNCHANGED <<connected, reqLog, reqChannel, bridgeVars, strayCount, powered, subs,
                   sensorVars, lightVars>>

\* callback() without its line 60: the servo is left where it is.
callback_no_relock ==
    /\ pc = "cb_dwell"
    /\ display' = "Locked"
    /\ msg' = <<>>
    /\ pc' = "nfc"
    /\ UNCHANGED <<connected, servo, inbox, reqLog, handling, resolved,
                   reqChannel, bridgeVars, strayCount, powered, subs,
                   sensorVars, lightVars>>

\* callback(), lines 60-61, after delay(3000): back to the locked position.
callback_relock ==
    /\ pc = "cb_dwell"
    /\ servo' = LOCKED
    /\ display' = "Locked"
    /\ msg' = <<>>
    /\ pc' = "nfc"
    /\ UNCHANGED <<connected, inbox, reqLog, handling, resolved,
                   reqChannel, bridgeVars, strayCount, powered, subs,
                   sensorVars, lightVars>>

\* callback(), line 65, after delay(1500).
callback_denied ==
    /\ pc = "cb_denied"
    /\ display' = "Scan Card"
    /\ msg' = <<>>
    /\ pc' = "nfc"
    /\ UNCHANGED <<connected, servo, inbox, reqLog, handling, resolved,
                   reqChannel, bridgeVars, strayCount, powered, subs,
                   sensorVars, lightVars>>

\* loop(), lines 124-138: readPassiveTargetID; with a card, build uidhex and the
\* payload and publish it on TOPIC_REQ. The broker hands it to the subscribers
\* of that topic; a publish on a closed connection is lost.
loop_nfc ==
    /\ pc = "nfc"
    /\ \/ /\ pc' = "top"
          /\ UNCHANGED <<display, reqLog, reqChannel, bridgeInbox>>
       \/ \E uid \in Cards :
            LET payload == RequestPayload(device_id, uidhex(uid)) IN
            /\ Len(reqLog) < MaxReq
            /\ display' = "Card read..."
            /\ pc' = "debounce"
            /\ IF connected
               THEN /\ reqLog' = Append(reqLog, uidhex(uid))
                    /\ reqChannel' = Append(reqChannel,
                           [req |-> Len(reqLog) + 1, payload |-> payload])
                    /\ bridgeInbox' =
                           IF TOPIC_REQ \in BridgeSubs /\ bridgeRunning
                           THEN Append(bridgeInbox,
                                    [topic |-> TOPIC_REQ, payload |-> payload])
                           ELSE bridgeInbox
               ELSE UNCHANGED <<reqLog, reqChannel, bridgeInbox>>
    /\ UNCHANGED <<connected, servo, inbox, msg, handling, resolved,
                   db, bridgeRunning, bridgeHandled, bridgeOut, sketchCount,
                   strayCount, bridgeFault, powered, subs, sensorVars, lightVars>>

\* loop(), lines 141-145, after delay(2000).
loop_debounce ==
    /\ pc = "debounce"
    /\ display' = "Scan Card"
    /\ pc' = "top"
    /\ UNCHANGED <<connected, servo, inbox, msg, reqLog, handling, resolved,
                   reqChannel, bridgeVars, strayCount, powered, subs,
                   sensorVars, lightVars>>

\* The connection to the broker is lost: client.connected() turns false and
\* what was queued for the node is gone with its subscriptions (QoS 0, clean
\* session).
LinkDown ==
    /\ connected
    /\ connected' = FALSE
    /\ inbox' = <<>>
    /\ subs' = [subs EXCEPT !["door"] = {}]
    /\ UNCHANGED <<pc, servo, display, msg, reqLog, handling, resolved,
                   reqChannel, bridgeVars, strayCount, powered,
                   sensorVars, lightVars>>

DoorStep ==
    \/ loop_reconnect
    \/ loop_client
    \/ callback_relock
    \/ callback_denied
    \/ loop_nfc
    \/ loop_debounce

\* ----------------------------------------------- the answering party
\* The AccessResponse of one decision, as the tokens of its JSON text.
ResponsePayload(dev, granted) ==
    <<"{", "\"device_id\"", ":", dev, ",",
           "\"granted\"", ":", IF granted THEN "true" ELSE "false", "}">>

\* The party the door node expects an answer from (line 139: "wait for response
\* via callback"): it takes the oldest request on TOPIC_REQ, decides by
\* membership of the credential in AllowList and publishes the decision on
\* TOPIC_RESP, where the broker queues it for the door node if it is subscribed.
Responder ==
    /\ reqChannel # <<>>
    /\ LET r == Head(reqChannel)
           obj == JsonLoads(r.payload)
           ok == \E c \in AllowList : Field(obj, "\"nfc_uid\"") = Quote(c)
       IN  /\ reqChannel' = Tail(reqChannel)
           /\ inbox' = IF TOPIC_RESP \in subs["door"]
                       THEN Append(inbox,
                                [topic |-> TOPIC_RESP,
                                 payload |-> ResponsePayload(Field(obj, "\"device_id\""), ok),
                                 req |-> r.req])
                       ELSE inbox
    /\ UNCHANGED <<pc, connected, servo, display, msg, reqLog, handling, resolved,
                   bridgeVars, strayCount, powered, subs,
                   sensorVars, lightVars>>

\* A text on TOPIC_RESP that is no AccessResponse.
StrayPayloads == { <<"{", "}">> }

\* Some client of the broker publishes such a text on TOPIC_RESP; the broker
\* queues it for the door node, which subscribed to that topic at line 75. It
\* answers no request (req 0).
StrayResponse ==
    /\ strayCount < MaxStray
    /\ strayCount' = strayCount + 1
    /\ \E p \in StrayPayloads :
          inbox' = IF TOPIC_RESP \in subs["door"]
                   THEN Append(inbox, [topic |-> TOPIC_RESP, payload |-> p, req |-> 0])
                   ELSE inbox
    /\ UNCHANGED <<pc, connected, servo, display, msg, reqLog, handling, resolved,
                   reqChannel, bridgeVars, powered, subs, sensorVars, lightVars>>

\* --------------------------------------------------------- sensor node
TOPIC_SENSOR == "esp/room/sensor"
sensor_device_id == "room_control"

\* What readHumidity() and readTemperature() return, in tenths of a unit: NaN
\* when the DHT22 could not be read, else a value of the sensor's resolution.
Readings == { NaN, [nan |-> FALSE, tenths |-> 265], [nan |-> FALSE, tenths |-> -5] }

RECURSIVE DecChars(_)
\* The decimal digits of a natural number.
DecChars(n) ==
    IF n < 10 THEN HexDigits[n + 1]
    ELSE DecChars(n \div 10) \o HexDigits[(n % 10) + 1]

\* String(x, 1): "nan" for a NaN, else sign, integer part, ".", one decimal.
String1(x) ==
    IF x.nan THEN "nan"
    ELSE LET a == IF x.tenths < 0 THEN -x.tenths ELSE x.tenths IN
         (IF x.tenths < 0 THEN "-" ELSE "") \o DecChars(a \div 10) \o "."
             \o HexDigits[(a % 10) + 1]

\* The payload built at line 60.
TelemetryPayload(dev, temp, hum) ==
    <<"{", "\"device_id\"", ":", Quote(dev), ",",
           "\"temperature\"", ":", String1(temp), ",",
           "\"humidity\"", ":", String1(hum), "}">>

\* loop(), line 51: reconnect() when the client is not connected; a failed
\* connect waits 2 s and tries again, a successful one subscribes to nothing.
\* client.loop() of line 52 has no callback to call.
sensor_reconnect ==
    /\ sPc = "top"
    /\ IF sConnected
       THEN /\ sPc' = "read"
            /\ UNCHANGED sConnected
       ELSE \/ /\ sConnected' = TRUE
               /\ sPc' = "read"
            \/ UNCHANGED <<sPc, sConnected>>
    /\ UNCHANGED <<h, t, sensorOut, doorVars, bridgeVars, powered, subs, lightVars>>

\* loop(), lines 54-55: one reading of each quantity.
sensor_read ==
    /\ sPc = "read"
    /\ Len(sensorOut) < MaxSamples
    /\ h' \in Readings
    /\ t' \in Readings
    /\ sPc' = "publish"
    /\ UNCHANGED <<sConnected, sensorOut, doorVars, bridgeVars, powered, subs, lightVars>>

\* Lines 56-63 with the test of line 56 reduced to isnan(t).
sensor_publish_unchecked ==
    /\ sPc = "publish"
    /\ sPc' = "delay"
    /\ IF t.nan \/ ~sConnected
       THEN UNCHANGED <<sensorOut, bridgeInbox>>
       ELSE LET m == [topic |-> TOPIC_SENSOR,
                      payload |-> TelemetryPayload(sensor_device_id, t, h)] IN
            /\ sensorOut' = Append(sensorOut, m)
            /\ bridgeInbox' = IF TOPIC_SENSOR \in BridgeSubs /\ bridgeRunning
                              THEN Append(bridgeInbox, m)
                              ELSE bridgeInbox
    /\ UNCHANGED <<sConnected, h, t, doorVars, db, bridgeRunning, bridgeHandled,
                   bridgeOut, sketchCount, bridgeFault, powered, subs, lightVars>>

\* loop(), lines 56-63: nothing but a log line when either reading is NaN,
\* else the payload is built and published on TOPIC_SENSOR. The broker hands
\* it to the subscribers of that topic; a publish on a closed connection is
\* lost.
sensor_publish ==
    /\ sPc = "publish"
    /\ sPc' = "delay"
    /\ IF t.nan \/ h.nan \/ ~sConnected
       THEN UNCHANGED <<sensorOut, bridgeInbox>>
       ELSE LET m == [topic |-> TOPIC_SENSOR,
                      payload |-> TelemetryPayload(sensor_device_id, t, h)] IN
            /\ sensorOut' = Append(sensorOut, m)
            /\ bridgeInbox' = IF TOPIC_SENSOR \in BridgeSubs /\ bridgeRunning
                              THEN Append(bridgeInbox, m)
                              ELSE bridgeInbox
    /\ UNCHANGED <<sConnected, h, t, doorVars, db, bridgeRunning, bridgeHandled,
                   bridgeOut, sketchCount, bridgeFault, powered, subs, lightVars>>

\* loop(), line 64, after delay(10000).
sensor_delay ==
    /\ sPc = "delay"
    /\ sPc' = "top"
    /\ UNCHANGED <<sConnected, h, t, sensorOut, doorVars, bridgeVars, powered, subs,
                   lightVars>>

\* The sensor node's connection to the broker is lost.
sensor_LinkDown ==
    /\ sConnected
    /\ sConnected' = FALSE
    /\ UNCHANGED <<sPc, h, t, sensorOut, doorVars, bridgeVars, powered, subs, lightVars>>

SensorStep ==
    \/ sensor_reconnect
    \/ sensor_read
    \/ sensor_publish
    \/ sensor_delay

SensorNext ==
    \/ sensor_reconnect
    \/ sensor_read
    \/ sensor_publish
    \/ sensor_delay
    \/ sensor_LinkDown

SensorSpec == Init /\ [][SensorNext]_vars

\* ---------------------------------------------------------- light node
TOPIC_CMD == "esp/light/cmd"
TOPIC_STATUS == "esp/light/status"
light_device_id == "light"

\* The modes apply_mode has a branch for.
Modes == {"off", "low", "med", "high"}

\* A command is the sequence of the characters of its text.
ModeKey == <<"\"", "m", "o", "d", "e", "\"">>

\* The text {"mode":v}.
CmdText(v) == <<"{">> \o ModeKey \o <<":">> \o v \o <<"}">>

\* The characters of a quoted word.
QuoteChars(w) == <<"\"">> \o w \o <<"\"">>

\* The commands published on TOPIC_CMD: the four modes, one in capitals, a mode
\* apply_mode has no branch for, a mode that is no string, no mode at all.
Commands ==
    { CmdText(QuoteChars(<<"o", "f", "f">>)),
      CmdText(QuoteChars(<<"l", "o", "w">>)),
      CmdText(QuoteChars(<<"m", "e", "d">>)),
      CmdText(QuoteChars(<<"M", "E", "D">>)),
      CmdText(QuoteChars(<<"h", "i", "g", "h">>)),
      CmdText(QuoteChars(<<"b", "l", "i", "n", "k">>)),
      CmdText(<<"5">>),
      <<"{", "}">> }

\* The largest int, which is also the largest number the checker holds.
INT_MAX == 2147483647

\* The conversion of an int argument to the unsigned parameter of indexOf
\* and substring. A negative x becomes x + 2^32, which lies above INT_MAX and
\* so above every length it is compared with; INT_MAX stands for it.
Unsigned(x) == IF x < 0 THEN INT_MAX ELSE x

\* String::indexOf(pat, fromIndex): the 0-based place of the first occurrence
\* of pat at or after fromIndex, -1 when there is none or fromIndex >= len.
IndexOfFrom(s, pat, fromIndex) ==
    LET from == Unsigned(fromIndex)
        hits == { i \in 0..(Len(s) - Len(pat)) :
                    /\ i >= from
                    /\ \A j \in 1..Len(pat) : s[i + j] = pat[j] }
    IN  IF from >= Len(s) \/ hits = {} THEN -1
        ELSE CHOOSE i \in hits : \A k \in hits : i <= k

\* String::substring(left, right): the bounds swapped when left > right, empty
\* when left >= len, right cut to len; the characters left..right-1.
Substring(s, left, right) ==
    LET a == Unsigned(left)
        b == Unsigned(right)
        lo == IF a > b THEN b ELSE a
        hi0 == IF a > b THEN a ELSE b
        hi == IF hi0 > Len(s) THEN Len(s) ELSE hi0
    IN  IF lo >= Len(s) THEN <<>> ELSE SubSeq(s, lo + 1, hi)

\* toLowerCase on one character.
LowerChar(c) ==
    CASE c = "M" -> "m" [] c = "E" -> "e" [] c = "D" -> "d"
      [] OTHER -> c

\* Lines 115-121: the mode callback() reads out of msg, given idx >= 0.
ParseModeOf(m) ==
    LET idx == IndexOfFrom(m, ModeKey, 0)
        colon == IndexOfFrom(m, <<":">>, idx)
        quote1 == IndexOfFrom(m, <<"\"">>, colon)
        quote2 == IndexOfFrom(m, <<"\"">>, quote1 + 1)
        sub == Substring(m, quote1 + 1, quote2)
    IN  Join([i \in 1..Len(sub) |-> LowerChar(sub[i])])

\* ParseModeOf of each command, worked out once.
ParseTable == { <<c, ParseModeOf(c)>> : c \in Commands }

\* The mode callback() reads out of the command text m.
ParseMode(m) == (CHOOSE e \in ParseTable : e[1] = m)[2]

\* The status text of lines 126 and 138.
StatusPayload(md) ==
    <<"{", "\"device_id\"", ":", "\"light\"", ",", "\"mode\"", ":", Quote(md), "}">>

\* The level apply_mode(md) writes to pin p: HIGH is TRUE.
Level(md, p) ==
    \/ md = "low" /\ p = PIN_LOW
    \/ md = "med" /\ p = PIN_MED
    \/ md = "high" /\ p = PIN_HIGH

\* loop(), line 166: reconnect() when the client is not connected. A failed
\* connect waits 2 s and tries again; a successful one subscribes TOPIC_CMD
\* and publishes the status of current_mode.
light_reconnect ==
    /\ lPc = "top"
    /\ IF lConnected
       THEN /\ lPc' = "poll"
            /\ UNCHANGED <<lConnected, lInbox, subs, lightOut>>
       ELSE \/ /\ lConnected' = TRUE
               /\ lInbox' = <<>>
               /\ subs' = [subs EXCEPT !["light"] = {TOPIC_CMD}]
               /\ lightOut' = Append(lightOut,
                                  [topic |-> TOPIC_STATUS,
                                   payload |-> StatusPayload(current_mode),
                                   cmd |-> 0])
               /\ lPc' = "poll"
            \/ UNCHANGED <<lPc, lConnected, lInbox, subs, lightOut>>
    /\ UNCHANGED <<current_mode, lMsg, mode, pins, cmdCount, lDrops,
                   doorVars, bridgeVars, powered, sensorVars>>

\* loop(), line 167: client.loop() hands one queued message to callback(),
\* lines 109-122: with "mode" in the text, the mode is read out of it and
\* stored in current_mode; without, callback() returns.
light_loop_client ==
    /\ lPc = "poll"
    /\ IF lConnected /\ lInbox # <<>>
       THEN LET m == Head(lInbox) IN
            /\ lInbox' = Tail(lInbox)
            /\ IF IndexOfFrom(m.payload, ModeKey, 0) >= 0
               THEN /\ lMsg' = m
                    /\ mode' = ParseMode(m.payload)
                    /\ current_mode' = ParseMode(m.payload)
                    /\ lPc' = "w1"
               ELSE /\ lPc' = "delay"
                    /\ UNCHANGED <<lMsg, mode, current_mode>>
       ELSE /\ lPc' = "delay"
            /\ UNCHANGED <<lInbox, lMsg, mode, current_mode>>
    /\ UNCHANGED <<lConnected, pins, lightOut, cmdCount, lDrops,
                   doorVars, bridgeVars, powered, subs, sensorVars>>

\* apply_mode that first switches every pin off and then goes on to its
\* second write.
apply_mode_1_clear ==
    /\ lPc = "w1"
    /\ pins' = IF mode \in Modes THEN [p \in DOMAIN pins |-> FALSE] ELSE pins
    /\ lPc' = "w2"
    /\ UNCHANGED <<lConnected, current_mode, lMsg, mode, lInbox, lightOut, cmdCount,
                   lDrops, doorVars, bridgeVars, powered, subs, sensorVars>>

\* apply_mode without its third digitalWrite.
apply_mode_3_skipped ==
    /\ lPc = "w3"
    /\ lPc' = "pub"
    /\ UNCHANGED <<lConnected, current_mode, lMsg, mode, pins, lInbox, lightOut, cmdCount,
                   lDrops, doorVars, bridgeVars, powered, subs, sensorVars>>

\* apply_mode, first digitalWrite of the branch of mode (lines 91, 95, 99,
\* 103); no branch, no write.
apply_mode_1 ==
    /\ lPc = "w1"
    /\ pins' = IF mode \in Modes THEN [pins EXCEPT ![PIN_LOW] = Level(mode, PIN_LOW)]
               ELSE pins
    /\ lPc' = "w2"
    /\ UNCHANGED <<lConnected, current_mode, lMsg, mode, lInbox, lightOut, cmdCount,
                   lDrops, doorVars, bridgeVars, powered, subs, sensorVars>>

\* apply_mode, second digitalWrite (lines 92, 96, 100, 104).
apply_mode_2 ==
    /\ lPc = "w2"
    /\ pins' = IF mode \in Modes THEN [pins EXCEPT ![PIN_MED] = Level(mode, PIN_MED)]
               ELSE pins
    /\ lPc' = "w3"
    /\ UNCHANGED <<lConnected, current_mode, lMsg, mode, lInbox, lightOut, cmdCount,
                   lDrops, doorVars, bridgeVars, powered, subs, sensorVars>>

\* apply_mode, third digitalWrite (lines 93, 97, 101, 105).
apply_mode_3 ==
    /\ lPc = "w3"
    /\ pins' = IF mode \in Modes THEN [pins EXCEPT ![PIN_HIGH] = Level(mode, PIN_HIGH)]
               ELSE pins
    /\ lPc' = "pub"
    /\ UNCHANGED <<lConnected, current_mode, lMsg, mode, lInbox, lightOut, cmdCount,
                   lDrops, doorVars, bridgeVars, powered, subs, sensorVars>>

\* callback(), lines 126-127: the status of current_mode is published; a
\* publish on a closed connection is lost. The broker hands it to the
\* subscribers of TOPIC_STATUS.
light_publish ==
    /\ lPc = "pub"
    /\ lPc' = "delay"
    /\ lMsg' = NoMsg
    /\ LET o == [topic |-> TOPIC_STATUS, payload |-> StatusPayload(current_mode),
                 cmd |-> lMsg.cmd] IN
       IF lConnected
       THEN /\ lightOut' = Append(lightOut, o)
            /\ bridgeInbox' = IF TOPIC_STATUS \in BridgeSubs /\ bridgeRunning
                              THEN Append(bridgeInbox, [topic |-> o.topic, payload |-> o.payload])
                              ELSE bridgeInbox
       ELSE UNCHANGED <<lightOut, bridgeInbox>>
    /\ UNCHANGED <<lConnected, current_mode, mode, pins, lInbox, cmdCount, lDrops,
                   doorVars, db, bridgeRunning, bridgeHandled, bridgeOut, sketchCount,
                   bridgeFault, powered, subs, sensorVars>>

\* loop(), line 169, after delay(100).
light_delay ==
    /\ lPc = "delay"
    /\ lPc' = "top"
    /\ UNCHANGED <<lConnected, current_mode, lMsg, mode, pins, lInbox, lightOut, cmdCount,
                   lDrops, doorVars, bridgeVars, powered, subs, sensorVars>>

\* The light node's connection to the broker is lost, what was queued for it
\* and its subscription with it.
light_LinkDown ==
    /\ lConnected
    /\ lDrops < MaxDrops
    /\ lDrops' = lDrops + 1
    /\ lConnected' = FALSE
    /\ lInbox' = <<>>
    /\ subs' = [subs EXCEPT !["light"] = {}]
    /\ UNCHANGED <<lPc, current_mode, lMsg, mode, pins, lightOut, cmdCount,
                   doorVars, bridgeVars, powered, sensorVars>>

\* Some client of the broker publishes a command on TOPIC_CMD; the broker
\* queues it for the light node if that is subscribed.
CmdPublish ==
    /\ cmdCount < MaxCmd
    /\ cmdCount' = cmdCount + 1
    /\ \E c \in Commands :
          lInbox' = IF TOPIC_CMD \in subs["light"]
                    THEN Append(lInbox, [topic |-> TOPIC_CMD, payload |-> c,
                                         cmd |-> cmdCount + 1])
                    ELSE lInbox
    /\ UNCHANGED <<lConnected, lPc, current_mode, lMsg, mode, pins, lightOut, lDrops,
                   doorVars, bridgeVars, powered, subs, sensorVars>>

LightStep ==
    \/ light_reconnect
    \/ light_loop_client
    \/ apply_mode_1
    \/ apply_mode_2
    \/ apply_mode_3
    \/ light_publish
    \/ light_delay

LightNext ==
    \/ light_reconnect
    \/ light_loop_client
    \/ apply_mode_1
    \/ apply_mode_2
    \/ apply_mode_3
    \/ light_publish
    \/ light_delay
    \/ light_LinkDown
    \/ CmdPublish

LightSpec == Init /\ [][LightNext]_vars

\* ------------------------------------------------------- rpi_bridge.py
\* The device ids of the clients that publish on the bridge's topics.
DeviceIds == {"door_lock", "DL001"}

\* A text json.loads rejects.
Malformed == <<"{", "\"device_id\"", ":">>

SketchPayloads ==
    { RequestPayload(d, uidhex(u)) : d \in DeviceIds, u \in Cards } \cup {Malformed}

\* What the clients on the bridge's other two topics publish: a telemetry
\* record and a light status, with the values of the README's schema.
TelemetrySketch ==
    <<"{", "\"device_id\"", ":", "\"TMP001\"", ",", "\"temperature\"", ":", "26.5", ",",
           "\"humidity\"", ":", "59.3", "}">>

StatusSketch ==
    <<"{", "\"device_id\"", ":", "\"LC001\"", ",", "\"status\"", ":", "\"medium\"", "}">>

SketchMessages ==
    { [topic |-> "door_lock", payload |-> p] : p \in SketchPayloads }
    \cup { [topic |-> "temperature_sensor", payload |-> TelemetrySketch],
           [topic |-> "light_control", payload |-> StatusSketch] }

\* A client flashed with the README's sketch publishes on its device topic,
\* one of the topics the bridge subscribes to.
SketchPublish ==
    /\ sketchCount < MaxSketch
    /\ sketchCount' = sketchCount + 1
    /\ \E m \in SketchMessages :
          bridgeInbox' = IF bridgeRunning /\ m.topic \in BridgeSubs
                         THEN Append(bridgeInbox, m)
                         ELSE bridgeInbox
    /\ UNCHANGED <<doorVars, db, bridgeRunning, bridgeHandled, bridgeOut, bridgeFault,
                   powered, subs, sensorVars, lightVars>>

\* Whether a parsed payload is an access request.
IsAccessRequest(obj) ==
    /\ HasField(obj, "\"nfc_uid\"")
    /\ HasField(obj, "\"action\"")
    /\ Field(obj, "\"action\"") = "\"unlock_request\""

\* on_message: decode, json.loads, set /devices/<topic>. Nothing is looked up
\* in allowed_uids and nothing is published. json.loads raises on a text it
\* rejects and set() raises when Firebase cannot be written; nothing catches
\* either, the exception leaves loop_forever() and the script ends.
on_message ==
    /\ bridgeRunning
    /\ bridgeInbox # <<>>
    /\ LET m == Head(bridgeInbox) IN
       /\ bridgeInbox' = Tail(bridgeInbox)
       /\ IF WellFormed(m.payload)
          THEN /\ bridgeHandled' =
                      IF IsAccessRequest(JsonLoads(m.payload))
                      THEN Append(bridgeHandled, JsonLoads(m.payload))
                      ELSE bridgeHandled
               /\ \/ /\ db' = [db EXCEPT ![m.topic] = JsonLoads(m.payload)]
                     /\ UNCHANGED <<bridgeRunning, bridgeFault>>
                  \/ /\ bridgeRunning' = FALSE
                     /\ bridgeFault' = "store"
                     /\ UNCHANGED db
          ELSE /\ bridgeRunning' = FALSE
               /\ bridgeFault' = "json"
               /\ UNCHANGED <<db, bridgeHandled>>
    /\ UNCHANGED <<doorVars, bridgeOut, sketchCount, powered, subs, sensorVars, lightVars>>

\* ------------------------------------------------------- specification
Next ==
    \/ loop_reconnect
    \/ loop_client
    \/ callback_relock
    \/ callback_denied
    \/ loop_nfc
    \/ loop_debounce
    \/ LinkDown
    \/ Responder
    \/ StrayResponse
    \/ SketchPublish
    \/ on_message

Spec == Init /\ [][Next]_vars

\* The door node with the broker and the answering party; the bridge and the
\* clients on its topics, which change none of the door node's variables, rest.
DoorNext ==
    \/ loop_reconnect
    \/ loop_client
    \/ callback_relock
    \/ callback_denied
    \/ loop_nfc
    \/ loop_debounce
    \/ LinkDown
    \/ Responder
    \/ StrayResponse

\* loop() runs for as long as the node is powered: each of its steps, once it
\* can be taken, is taken.
DoorFairSpec == Init /\ [][DoorNext]_vars /\ WF_vars(DoorStep)

\* The sensor node, the broker, rpi_bridge.py and the clients on its topics;
\* the door node and the light node rest.
TelemetryNext ==
    \/ sensor_reconnect
    \/ sensor_read
    \/ sensor_publish
    \/ sensor_delay
    \/ sensor_LinkDown
    \/ SketchPublish
    \/ on_message

TelemetrySpec == Init /\ [][TelemetryNext]_vars

\* A node that is switched on runs its loop(), with the broker and the
\* clients that publish to it.
NodeNext ==
    \/ "door" \in powered /\ DoorNext
    \/ "sensor" \in powered /\ SensorNext
    \/ "light" \in powered /\ LightNext

\* A step of the loop() of the node that is switched on.
NodeStep ==
    \/ "door" \in powered /\ DoorStep
    \/ "sensor" \in powered /\ SensorStep
    \/ "light" \in powered /\ LightStep

\* The connect of reconnect() succeeds.
NodeConnect ==
    \/ "door" \in powered /\ loop_reconnect /\ connected'
    \/ "sensor" \in powered /\ sensor_reconnect /\ sConnected'
    \/ "light" \in powered /\ light_reconnect /\ lConnected'

\* loop() runs for as long as the node is switched on, and a connect that is
\* tried again and again succeeds in the end.
NodeFairSpec ==
    /\ NodeInit
    /\ [][NodeNext]_vars
    /\ WF_vars(NodeStep)
    /\ WF_vars(NodeConnect)

\* -------------------------------------------------------------- claims
\* The credential of a parsed access request is in AllowList.
CredAllowed(obj) == \E c \in AllowList : Field(obj, "\"nfc_uid\"") = Quote(c)

\* Message o, published by the bridge, is the AccessResponse to request obj
\* with the decision g.
IsResponseTo(o, obj, g) ==
    /\ WellFormed(o.payload)
    /\ HasField(JsonLoads(o.payload), "\"granted\"")
    /\ Field(JsonLoads(o.payload), "\"granted\"") = (IF g THEN "true" ELSE "false")
    /\ HasField(JsonLoads(o.payload), "\"device_id\"")
    /\ Field(JsonLoads(o.payload), "\"device_id\"") = Field(obj, "\"device_id\"")

\* C1: every access request the bridge has processed whose credential is in
\* AllowList has an AccessResponse with granted true published for it.
C1_AllowedIsGranted ==
    \A i \in 1..Len(bridgeHandled) :
        CredAllowed(bridgeHandled[i]) =>
            \E j \in 1..Len(bridgeOut) : IsResponseTo(bridgeOut[j], bridgeHandled[i], TRUE)

\* C2: every access request the bridge has processed whose credential is not
\* in AllowList has an AccessResponse with granted false published for it.
C2_NotAllowedIsDenied ==
    \A i \in 1..Len(bridgeHandled) :
        ~CredAllowed(bridgeHandled[i]) =>
            \E j \in 1..Len(bridgeOut) : IsResponseTo(bridgeOut[j], bridgeHandled[i], FALSE)

\* C3: the servo is at the unlocked position only while the door node handles
\* the response to a request of its own whose credential is in AllowList.
C3_UnlockOnlyForAllowed ==
    servo = UNLOCKED =>
        /\ handling \in 1..Len(reqLog)
        /\ reqLog[handling] \in AllowList

\* The value of the granted field of the response callback() is handling.
HandlingGranted ==
    IF WellFormed(msg) /\ HasField(JsonLoads(msg), "\"granted\"")
    THEN Field(JsonLoads(msg), "\"granted\"")
    ELSE "none"

\* C4: while the door node handles an AccessResponse whose granted field is
\* false it shows "Access Denied" and the servo stays at the locked position.
C4_DeniedNeverUnlocks ==
    (pc \in {"cb_dwell", "cb_denied"} /\ HandlingGranted = "false") =>
        (servo = LOCKED /\ display = "Access Denied")

\* The door node is ready to scan: not in the debounce delay, not in callback().
DoorIdle == pc \in {"top", "poll", "nfc"}

\* C5: the door node is back in Idle only when its newest request is resolved
\* (unlock or denied shown for it); it never returns with no outcome.
C5_ResolvedBeforeIdle ==
    (DoorIdle /\ reqLog # <<>>) => Len(reqLog) \in resolved

\* C6: the servo is at the unlocked position only for the response to the
\* newest request; the response to a superseded request moves nothing. (Stated
\* of the responses whose granted field is true: the case that does not rest
\* on how a false one is read.)
C6_StaleResponseDiscarded ==
    (servo = UNLOCKED /\ HandlingGranted = "true") => handling = Len(reqLog)

\* C7: a request is published only when no earlier request of the door node
\* is still without its response.
C7_NoRequestWhileOutstanding ==
    [][Len(reqLog') > Len(reqLog) => (reqLog = <<>> \/ Len(reqLog) \in resolved)]_vars

\* C8: once the servo is at the unlocked position, the door node takes no
\* message from its queue, reads no card and publishes nothing until the
\* step that writes the locked position and returns it to the card read; and
\* that step always comes, whatever arrives meanwhile.
C8_DwellThenRelock ==
    /\ [][servo = UNLOCKED =>
            \/ /\ servo' = LOCKED
               /\ pc' = "nfc"
               /\ reqLog' = reqLog
               /\ handling' = handling
               /\ resolved' = resolved
               /\ inbox' = inbox
            \/ /\ servo' = UNLOCKED
               /\ pc' = pc
               /\ pc = "cb_dwell"
               /\ UNCHANGED <<msg, display, reqLog, handling, resolved>>]_vars
    /\ (servo = UNLOCKED) ~> (servo = LOCKED /\ pc = "nfc")

\* C8 witness: a granted response is being handled, the servo is unlocked and
\* a further message is already queued for the node.
C8_Witness ==
    /\ pc = "cb_dwell"
    /\ servo = UNLOCKED
    /\ HandlingGranted = "true"
    /\ inbox # <<>>

\* C9: the bridge has published exactly one AccessResponse for each access
\* request it has processed.
C9_OneResponsePerRequest ==
    /\ Len(bridgeOut) = Len(bridgeHandled)
    /\ \A i \in 1..Len(bridgeHandled) :
          IsResponseTo(bridgeOut[i], bridgeHandled[i], CredAllowed(bridgeHandled[i]))

\* The response topic scoped to device d.
ResponseTopic(d) == "esp/" \o d \o "/response"

\* C10: when the bridge has processed requests of two different device ids,
\* each has its response on the response topic of its own device id, and no
\* response is on the topic of another device id.
C10_ResponsesPerDevice ==
    (\E i, j \in 1..Len(bridgeHandled) :
        Field(bridgeHandled[i], "\"device_id\"") # Field(bridgeHandled[j], "\"device_id\""))
    =>
    /\ \A i \in 1..Len(bridgeHandled) :
          \E k \in 1..Len(bridgeOut) : \E d \in DeviceIds :
             /\ Field(bridgeHandled[i], "\"device_id\"") = Quote(d)
             /\ bridgeOut[k].topic = ResponseTopic(d)
             /\ Field(JsonLoads(bridgeOut[k].payload), "\"device_id\"") = Quote(d)
    /\ \A k \in 1..Len(bridgeOut) : \A d \in DeviceIds :
          bridgeOut[k].topic = ResponseTopic(d) =>
             Field(JsonLoads(bridgeOut[k].payload), "\"device_id\"") = Quote(d)

\* C16: a cycle in which the temperature or the humidity read is invalid
\* publishes nothing; and each record the sensor node publishes carries the
\* temperature and the humidity read in that cycle, both valid.
C16_ValidTelemetry ==
    /\ [][(sPc = "publish" /\ (h.nan \/ t.nan)) => sensorOut' = sensorOut]_vars
    /\ [][sensorOut' # sensorOut =>
             /\ ~h.nan
             /\ ~t.nan
             /\ Len(sensorOut') = Len(sensorOut) + 1
             /\ SubSeq(sensorOut', 1, Len(sensorOut)) = sensorOut
             /\ LET obj == JsonLoads(sensorOut'[Len(sensorOut')].payload) IN
                /\ WellFormed(sensorOut'[Len(sensorOut')].payload)
                /\ Field(obj, "\"temperature\"") = String1(t)
                /\ Field(obj, "\"humidity\"") = String1(h)
                /\ Field(obj, "\"temperature\"") # "nan"
                /\ Field(obj, "\"humidity\"") # "nan"]_vars

\* C16 witness: after a first record was published, a cycle whose humidity
\* read failed (its temperature read did not) has passed the publish step with
\* the connection open.
C16_Witness ==
    /\ sPc = "delay"
    /\ h.nan
    /\ ~t.nan
    /\ sConnected
    /\ Len(sensorOut) = 1

\* last_user of the record stored under key tp.
LastUser(store, tp) ==
    IF HasField(store[tp], "\"last_user\"") THEN Field(store[tp], "\"last_user\"") ELSE "none"

\* status of the record stored under key tp.
Status(store, tp) ==
    IF HasField(store[tp], "\"status\"") THEN Field(store[tp], "\"status\"") ELSE "none"

\* C11: last_user of the door record changes only in a step in which the
\* bridge handles an access request whose credential is in AllowList, and
\* last_user of the light record only in a step that changes the light's
\* stored state; a denied request or a request that changes nothing leaves
\* last_user as it was.
C11_LastUserOnStateChange ==
    [][/\ LastUser(db', "door_lock") # LastUser(db, "door_lock") =>
             /\ Len(bridgeHandled') = Len(bridgeHandled) + 1
             /\ CredAllowed(bridgeHandled'[Len(bridgeHandled')])
       /\ LastUser(db', "light_control") # LastUser(db, "light_control") =>
             Status(db', "light_control") # Status(db, "light_control")]_vars

\* C12: when the bridge has handled an access request of device d whose
\* credential c is in AllowList, the record of d in the store has status
\* locked and last_user c.
C12_GrantRecorded ==
    [][(/\ Len(bridgeHandled') = Len(bridgeHandled) + 1
        /\ CredAllowed(bridgeHandled'[Len(bridgeHandled')]))
       => LET req == bridgeHandled'[Len(bridgeHandled')] IN
          \E d \in DOMAIN db' :
             /\ Quote(d) = Field(req, "\"device_id\"")
             /\ Status(db', d) = "\"locked\""
             /\ LastUser(db', d) = Field(req, "\"nfc_uid\"")]_vars

\* A command text of the form {"mode":"<word>"}.
WellFormedCmd(c) ==
    /\ Len(c) >= 11
    /\ c[1] = "{"
    /\ SubSeq(c, 2, 7) = ModeKey
    /\ c[8] = ":"
    /\ c[9] = "\""
    /\ c[Len(c) - 1] = "\""
    /\ c[Len(c)] = "}"
    /\ \A i \in 10..(Len(c) - 2) : c[i] \notin {"\"", "{", "}", ":", ","}

\* The mode word of such a command, capitals read as small letters.
ValueOf(c) == Join([i \in 1..(Len(c) - 11) |-> LowerChar(c[9 + i])])

\* The command carries one of the four modes.
Recognized(c) == WellFormedCmd(c) /\ ValueOf(c) \in Modes

\* The status messages the light node has published for command n.
EchoesOf(out, n) == { i \in 1..Len(out) : out[i].cmd = n }

\* The mode a status message carries.
EchoMode(o) == Field(JsonLoads(o.payload), "\"mode\"")

\* C13: when callback() takes a command whose mode is none of off, low, med,
\* high, or whose text is malformed, current_mode stays as it is, and while
\* that command is handled no pin changes and no status is published.
C13_UnrecognizedDropped ==
    /\ [][(/\ lPc = "poll"
           /\ lPc' # lPc
           /\ lConnected
           /\ lInbox # <<>>
           /\ ~Recognized(Head(lInbox).payload))
          => (current_mode' = current_mode /\ pins' = pins /\ lightOut' = lightOut)]_vars
    /\ [][(lMsg # NoMsg /\ ~Recognized(lMsg.payload))
          => (pins' = pins /\ lightOut' = lightOut)]_vars

\* The status message o is the echo of mode m for command n.
IsEchoOf(o, n, m) ==
    /\ o.cmd = n
    /\ o.topic = TOPIC_STATUS
    /\ WellFormed(o.payload)
    /\ HasField(JsonLoads(o.payload), "\"device_id\"")
    /\ Field(JsonLoads(o.payload), "\"device_id\"") = Quote(light_device_id)
    /\ HasField(JsonLoads(o.payload), "\"mode\"")
    /\ EchoMode(o) = Quote(m)

MedPattern == [p \in {PIN_LOW, PIN_MED, PIN_HIGH} |-> p = PIN_MED]

\* C15: a command of mode med taken while the mode is med and the pins show
\* the pattern of med leaves current_mode med, publishes no status but one
\* of mode med, and at none of its steps changes a pin: no other channel
\* becomes active, the med channel never inactive.
C15_MedIdempotent ==
    /\ [][(/\ lPc = "poll"
           /\ lPc' # lPc
           /\ lConnected
           /\ lInbox # <<>>
           /\ Recognized(Head(lInbox).payload)
           /\ ValueOf(Head(lInbox).payload) = "med"
           /\ current_mode = "med"
           /\ pins = MedPattern)
          => (current_mode' = "med" /\ pins' = MedPattern /\ lPc' = "w1")]_vars
    /\ [][(/\ lPc \in {"w1", "w2", "w3", "pub"}
           /\ Recognized(lMsg.payload)
           /\ ValueOf(lMsg.payload) = "med"
           /\ pins = MedPattern)
          => /\ pins' = MedPattern
             /\ current_mode' = "med"
             /\ lightOut' # lightOut =>
                   /\ Len(lightOut') = Len(lightOut) + 1
                   /\ IsEchoOf(lightOut'[Len(lightOut')], lMsg.cmd, "med")]_vars

\* C15 witness: the second of two med commands is about to have its status
\* published, the first one's status of mode med being out already.
C15_Witness ==
    /\ lPc = "pub"
    /\ lMsg.cmd = 2
    /\ Recognized(lMsg.payload)
    /\ ValueOf(lMsg.payload) = "med"
    /\ pins = MedPattern
    /\ \E i \in 1..Len(lightOut) : IsEchoOf(lightOut[i], 1, "med")

\* A parsed payload is a telemetry record or a status.
IsTelemetryOrStatus(obj) ==
    /\ HasField(obj, "\"device_id\"")
    /\ \/ HasField(obj, "\"temperature\"") /\ HasField(obj, "\"humidity\"")
       \/ HasField(obj, "\"status\"")
       \/ HasField(obj, "\"mode\"")

\* C17: each topic a node has published on is one the bridge subscribes to,
\* so that what the broker delivers of it goes to on_message; and when
\* on_message has stored a well-formed telemetry or status message, the record
\* under the message's device_id is the content of that message.
C17_NodesReachStore ==
    /\ [](/\ \A i \in 1..Len(sensorOut) : sensorOut[i].topic \in BridgeSubs
          /\ \A i \in 1..Len(lightOut) : lightOut[i].topic \in BridgeSubs
          /\ reqLog # <<>> => TOPIC_REQ \in BridgeSubs)
    /\ [][(/\ bridgeRunning
           /\ bridgeRunning'
           /\ bridgeInbox # <<>>
           /\ bridgeInbox' = Tail(bridgeInbox)
           /\ WellFormed(Head(bridgeInbox).payload)
           /\ IsTelemetryOrStatus(JsonLoads(Head(bridgeInbox).payload)))
          => LET obj == JsonLoads(Head(bridgeInbox).payload) IN
             \E d \in DOMAIN db' :
                /\ Quote(d) = Field(obj, "\"device_id\"")
                /\ db'[d] = obj]_vars

\* C18: when on_message takes a payload json.loads rejects, the store is as
\* before, nothing is published and the bridge is still running, so that it
\* handles the messages that follow.
C18_MalformedDropped ==
    [][(/\ bridgeRunning
        /\ bridgeInbox # <<>>
        /\ bridgeInbox' = Tail(bridgeInbox)
        /\ ~WellFormed(Head(bridgeInbox).payload))
       => (db' = db /\ bridgeOut' = bridgeOut /\ bridgeRunning')]_vars

\* C19: when the write to the store fails while on_message handles an access
\* request, the AccessResponse with the decision for its credential is
\* published all the same and the bridge is still running.
C19_WriteFailureStillAnswers ==
    [][(/\ Len(bridgeHandled') = Len(bridgeHandled) + 1
        /\ bridgeFault = "none"
        /\ db' = db
        /\ bridgeFault' = "store")
       => LET req == bridgeHandled'[Len(bridgeHandled')] IN
          /\ bridgeRunning'
          /\ \E j \in 1..Len(bridgeOut') :
                IsResponseTo(bridgeOut'[j], req, CredAllowed(req))]_vars

\* The door node writes the servo, reads a card or publishes a request.
DoorWork ==
    \/ servo' # servo
    \/ pc = "nfc" /\ pc' = "debounce"
    \/ reqLog' # reqLog

\* The sensor node reads the DHT22 or publishes a record.
SensorWork ==
    \/ sPc = "read" /\ sPc' = "publish"
    \/ sensorOut' # sensorOut

\* The light node writes a pin or, its connection still down, publishes.
LightWork ==
    \/ lPc \in {"w1", "w2", "w3"} /\ lPc' # lPc /\ mode \in Modes
    \/ lightOut' # lightOut /\ ~lConnected'

\* A node whose connection is down is connected again later and in its
\* loop, its subscription in place.
NodesResume ==
    /\ ("door" \in powered /\ ~connected)
          ~> (connected /\ pc = "poll" /\ TOPIC_RESP \in subs["door"])
    /\ ("sensor" \in powered /\ ~sConnected /\ sPc = "top") ~> (sConnected /\ sPc = "read")
    /\ ("light" \in powered /\ ~lConnected)
          ~> (lConnected /\ lPc = "poll" /\ TOPIC_CMD \in subs["light"])

\* C20: in a step taken while a node's connection is down the node does no
\* work of its own: it reads no card and no sensor, writes no servo and no
\* pin and publishes nothing; and whenever the door node is connected it is
\* subscribed to TOPIC_RESP, the light node to TOPIC_CMD. (That a node whose
\* connection is down resumes its loop is NodesResume.)
C20_IdleWhileDown ==
    /\ [][("door" \in powered /\ ~connected) => ~DoorWork]_vars
    /\ [][("sensor" \in powered /\ ~sConnected) => ~SensorWork]_vars
    /\ [][("light" \in powered /\ ~lConnected) => ~LightWork]_vars
    /\ [](connected => TOPIC_RESP \in subs["door"])
    /\ [](lConnected => TOPIC_CMD \in subs["light"])

\* The output pins that are at HIGH.
ActivePins(ps) == { p \in DOMAIN ps : ps[p] }

\* C21: in every state of the light node, those between the three
\* digitalWrite calls of apply_mode included, at most one of the pins
\* PIN_LOW, PIN_MED, PIN_HIGH is at HIGH.
C21_AtMostOneChannel == Cardinality(ActivePins(pins)) <= 1

\* The pins show the pattern of mode md, and md is one of the four modes.
Agrees(md, ps) == md \in Modes /\ \A p \in DOMAIN ps : ps[p] = Level(md, p)

\* C22: whenever the light node is not inside callback(), current_mode is
\* one of the four modes and the pins show its pattern; and every status the
\* node publishes carries the mode whose pattern the pins show at that time.
C22_ModeAgreesWithPins ==
    /\ [](lPc \in {"top", "poll", "delay"} => Agrees(current_mode, pins))
    /\ [][lightOut' # lightOut =>
             /\ Len(lightOut') = Len(lightOut) + 1
             /\ \E md \in Modes :
                   /\ Agrees(md, pins')
                   /\ EchoMode(lightOut'[Len(lightOut')]) = Quote(md)]_vars

====
